---------------------------- MODULE Spec2Model ----------------------------
(***************************************************************************)
(* Model of server_edited.py: the Dimensions token cache                   *)
(* (_get_dimensions_token), the HTTP helper (_http_post) and the proxy     *)
(* handler of POST /api/dimensions (dimensions_proxy).                     *)
(*                                                                         *)
(* A thread of control is either idle, inside a direct call of             *)
(* _get_dimensions_token (as the unit tests make), or inside one           *)
(* dimensions_proxy request.  Every statement that reads or writes the     *)
(* process-wide cache, the clock or the network is one step, so that the   *)
(* concurrent specification interleaves them as threads of the serving     *)
(* runtime do.                                                             *)
(***************************************************************************)
EXTENDS Integers, Sequences, FiniteSets, TLC

\* ------------------------------------------------------------------ bounds
NumThreads == 2          \* threads of the concurrent specification
MaxTicks == 3            \* clock advances in one behaviour
MaxAuthCalls == 2        \* authentication POSTs in one behaviour
MaxQueryLen == 2         \* characters of a query string

\* --------------------------------------------------------- program constants
TokenTtl == 50 * 60      \* line 99: 50 minutes
ForwardTimeout == 30     \* line 214

Threads == 1..NumThreads
TickSteps == {5, 2995, 3995}

\* ------------------------------------------------------------------ values
None == 0                \* Python None for a token; token-<n> is n > 0
EmptyToken == -1         \* a "token" field that is present and empty
NoTime == -1             \* time_func() was not called

Chars == {" ", "q"}

RECURSIVE StringsUpTo(_)
StringsUpTo(n) ==
    IF n = 0 THEN {<<>>}
    ELSE LET shorter == StringsUpTo(n - 1)
         IN  shorter \cup {Append(s, c) : s \in {x \in shorter : Len(x) = n - 1}, c \in Chars}

QueryStrings == StringsUpTo(MaxQueryLen)

\* str.strip(): drop leading and trailing whitespace
RECURSIVE LStrip(_)
LStrip(s) == IF s # <<>> /\ Head(s) = " " THEN LStrip(Tail(s)) ELSE s

RECURSIVE RStrip(_)
RStrip(s) ==
    IF s # <<>> /\ s[Len(s)] = " " THEN RStrip(SubSeq(s, 1, Len(s) - 1)) ELSE s

\* a bug: the query is not trimmed
Strip_Missing(s) == s

Strip(s) == RStrip(LStrip(s))

\* The value request.get_json() hands to the handler.  shape is the JSON
\* type of the payload; for an object, q says what payload.get("query") is.
\*   q.kind: "absent" (no such key), "null", "falsy" (0, false, [] ...),
\*           "truthy" (a non-string such as 5 or [1]), "str" (q.text)
QueryValues ==
    {[kind |-> k, text |-> <<>>] : k \in {"absent", "null", "falsy", "truthy"}}
        \cup {[kind |-> "str", text |-> s] : s \in QueryStrings}

NoQuery == [kind |-> "absent", text |-> <<>>]

Payloads ==
    {[shape |-> "object", q |-> v] : v \in QueryValues}
        \cup {[shape |-> s, q |-> NoQuery] : s \in {"null", "empty_array", "array", "string"}}

\* Python truthiness of a payload / of a query value
PayloadTruthy(p) == p.shape \in {"object", "array", "string"}
    \* an object carrying a "query" key is never the empty dict; the empty dict
    \* behaves like the {} that `or {}` substitutes, so it is folded into it
QueryTruthy(v) == v.kind = "truthy" \/ (v.kind = "str" /\ v.text # <<>>)

\* ------------------------------------------------------------- HTTP texts
\* A response body, by the JSON it spells:
\*   "token_obj"   {"token": "token-<n>"}       "no_token_obj"  {}
\*   "empty_token" {"token": ""}                "results_obj"   {"results":[1,2,3]}
\*   "array"       [1]                          "null"          null
\*   "invalid"     not-json
Text(form, n) == [form |-> form, n |-> n]
NoText == Text("invalid", 0)

\* json.loads: fails on "invalid", else the parsed value
\*   value.type: "dict" | "list" | "none"; value.token: the "token" entry of
\*   a dict (None when the key is absent); value.results: the "results" entry
JsonValue(type, token, results) == [type |-> type, token |-> token, results |-> results]
JsonLoads(text) ==
    CASE text.form = "invalid"      -> [ok |-> FALSE, value |-> JsonValue("none", None, <<>>)]
      [] text.form = "token_obj"    -> [ok |-> TRUE, value |-> JsonValue("dict", text.n, <<>>)]
      [] text.form = "no_token_obj" -> [ok |-> TRUE, value |-> JsonValue("dict", None, <<>>)]
      [] text.form = "empty_token"  -> [ok |-> TRUE, value |-> JsonValue("dict", EmptyToken, <<>>)]
      [] text.form = "results_obj"  -> [ok |-> TRUE, value |-> JsonValue("dict", None, <<1, 2, 3>>)]
      [] text.form = "array"        -> [ok |-> TRUE, value |-> JsonValue("list", None, <<1>>)]
      [] text.form = "null"         -> [ok |-> TRUE, value |-> JsonValue("none", None, <<>>)]

TokenTruthy(t) == t > 0


\* ------------------------------------------------------------- exceptions
\* str(exc) is msg: a format (text) with the values it interpolates
Msg(text, url, status, body) == [text |-> text, url |-> url, status |-> status, body |-> body]
NoMsg == Msg("", "", 0, NoText)
Exc(cls, msg) == [cls |-> cls, msg |-> msg]
NoExc == Exc("", NoMsg)

RuntimeError(msg) == Exc("RuntimeError", msg)
AttributeError(text) == Exc("AttributeError", Msg(text, "", 0, NoText))
\* class DimensionsServiceError(RuntimeError): .status and .body are msg's
DimensionsServiceError(status, body) ==
    Exc("DimensionsServiceError", Msg("HTTP {status}: {body}", "", status, body))
\* except RuntimeError also catches its subclass
IsRuntimeError(exc) == exc.cls \in {"RuntimeError", "DimensionsServiceError"}

\* ------------------------------------------------------------- the network
\* What urlopen does with a request: it answers 2xx with a body (ok), answers
\* with an error status (HTTPError), fails to connect (URLError), or fails in
\* another way, such as a timeout while the body is read (other).
HttpErrors == {<<401, Text("null", 0)>>, <<500, Text("invalid", 0)>>}
UrlOpen(kind, status, text) == [kind |-> kind, status |-> status, text |-> text]
NoUrlOpen == UrlOpen("none", 0, NoText)
FailingUrlOpens ==
    {UrlOpen("http_error", e[1], e[2]) : e \in HttpErrors}
        \cup {UrlOpen("url_error", 0, NoText), UrlOpen("other", 0, NoText)}
\* the n-th authentication POST: the service answers with token-<n>, with a
\* body that carries no usable token, or not at all
AuthUrlOpens(n) ==
    {UrlOpen("ok", 200, Text(f, IF f = "token_obj" THEN n ELSE 0)) :
        f \in {"token_obj", "no_token_obj", "empty_token", "array", "null", "invalid"}}
        \cup FailingUrlOpens
DslUrlOpens ==
    {UrlOpen("ok", 200, Text(f, 0)) : f \in {"results_obj", "array", "null", "invalid"}}
        \cup FailingUrlOpens

\* a bug: URLError is not caught and leaves _http_post as it is
HttpPost_UrlErrorUncaught(url, outcome) ==
    CASE outcome.kind = "ok" -> [raised |-> FALSE, text |-> outcome.text, exc |-> NoExc]
      [] outcome.kind = "http_error" ->
            [raised |-> TRUE, text |-> NoText,
             exc |-> DimensionsServiceError(outcome.status, outcome.text)]
      [] OTHER ->
            [raised |-> TRUE, text |-> NoText,
             exc |-> Exc(IF outcome.kind = "url_error" THEN "URLError" ELSE "OSError",
                         Msg("timed out", "", 0, NoText))]

\* _http_post: the text of the response, or the exception it raises
Returned(text) == [raised |-> FALSE, text |-> text, exc |-> NoExc]
Raised(exc) == [raised |-> TRUE, text |-> NoText, exc |-> exc]
HttpPost(url, outcome) ==
    CASE outcome.kind = "ok" -> Returned(outcome.text)
      [] outcome.kind = "http_error" ->
            Raised(DimensionsServiceError(outcome.status, outcome.text))
      [] outcome.kind = "url_error" ->
            Raised(RuntimeError(Msg("Network error contacting {url}: {reason}", url, 0, NoText)))
      [] OTHER -> Raised(Exc("OSError", Msg("timed out", "", 0, NoText)))

DIMENSIONS_AUTH_URL == "https://app.dimensions.ai/api/auth"
DIMENSIONS_DSL_URL == "https://app.dimensions.ai/api/dsl/v2"

\* ------------------------------------------------------------------- state
VARIABLES
    cache,        \* _DIMENSIONS_TOKEN_CACHE: [token, expires_at]
    env_api_key,  \* whether DIMENSIONS_API_KEY is set to a non-empty value
    clock,        \* what time_func() returns now
    ticks,        \* clock advances so far
    auth_calls,   \* authentication POSTs so far (StubHttpPost.calls)
    frame,        \* per thread: position and local variables
    call,         \* per thread: what the current call has done and produced
    stored,       \* history: the (token, expires_at) pairs one refresh wrote
    stored_at,    \* history: the clock reading behind cache.expires_at (line 99)
    script        \* test_get_dimensions_token_caches_success, as far as it got

vars == <<cache, env_api_key, clock, ticks, auth_calls, frame, call, stored, stored_at,
          script>>

NoRequest == [url |-> "", payload |-> <<>>, authorization |-> [scheme |-> "", token |-> None],
              content_type |-> "", timeout |-> 0]
NoResult == [type |-> "none"]
NoTokRes == [state |-> "none", token |-> None, exc |-> NoExc, fast |-> FALSE]

IdleFrame ==
    [pc |-> "idle", kind |-> "none", payload |-> [shape |-> "null", q |-> NoQuery],
     query |-> <<>>, token |-> None, expires_at |-> 0, checked_at |-> NoTime,
     response_text |-> NoText, new_expires_at |-> 0, read_at |-> NoTime,
     handler_token |-> None, api_key |-> FALSE]

NewCall(snap) ==
    [snap |-> snap, auth_posts |-> 0, fwd_posts |-> 0, tokres |-> NoTokRes,
     auth_upstream |-> NoUrlOpen, forward |-> NoRequest, upstream |-> NoUrlOpen,
     result |-> NoResult]

Init ==
    /\ cache = [token |-> None, expires_at |-> 0]
    /\ env_api_key \in BOOLEAN
    /\ clock = 0
    /\ ticks = 0
    /\ auth_calls = 0
    /\ frame = [th \in Threads |-> IdleFrame]
    /\ call = [th \in Threads |-> NewCall([token |-> None, expires_at |-> 0])]
    /\ stored = {}
    /\ stored_at = NoTime
    /\ script = [step |-> 0, results |-> <<>>]

AtRest(th) == frame[th].pc \in {"idle", "done"}
Active == {th \in Threads : ~AtRest(th)}

\* ------------------------------------------------------- results of a call
Response(status, body) == [type |-> "response", status |-> status, body |-> body]
ReturnedToken(token) == [type |-> "returned", token |-> token]
RaisedExc(exc) == [type |-> "raised", exc |-> exc]

TokenReturned(token, fast) == [state |-> "returned", token |-> token, exc |-> NoExc, fast |-> fast]
TokenRaised(exc) == [state |-> "raised", token |-> None, exc |-> exc, fast |-> FALSE]

\* -------------------------------------------------- dimensions_proxy, pure
\* lines 193-194: the stripped query, or the exception the two lines raise
Validated(query) == [raised |-> FALSE, query |-> query, exc |-> NoExc]
Invalid(exc) == [raised |-> TRUE, query |-> <<>>, exc |-> exc]
ValidateQuery(p) ==
    LET payload == IF PayloadTruthy(p) THEN p ELSE [shape |-> "object", q |-> NoQuery]
    IN  IF payload.shape # "object"
        THEN Invalid(AttributeError("object has no attribute 'get'"))
        ELSE IF ~QueryTruthy(payload.q) THEN Validated(Strip(<<>>))
        ELSE IF payload.q.kind # "str"
        THEN Invalid(AttributeError("object has no attribute 'strip'"))
        ELSE Validated(Strip(payload.q.text))

\* line 196
MissingQueryResponse == Response(400, [error |-> "Missing DSL query payload."])

\* a bug: the authentication failure is reported without its cause
AuthErrorResponse_NoDetails(exc) ==
    Response(500, [error |-> "Unable to authenticate with Dimensions."])

\* lines 200-204
AuthErrorResponse(exc) ==
    Response(500, [error |-> "Unable to authenticate with Dimensions.", details |-> exc.msg])

\* a bug: the token is sent under the Bearer scheme
ForwardRequest_Bearer(query, token) ==
    [url |-> DIMENSIONS_DSL_URL, payload |-> query,
     authorization |-> [scheme |-> "Bearer", token |-> token],
     content_type |-> "application/json", timeout |-> ForwardTimeout]

\* lines 207-215: the request the handler sends
ForwardRequest(query, token) ==
    [url |-> DIMENSIONS_DSL_URL, payload |-> query,
     authorization |-> [scheme |-> "JWT", token |-> token],
     content_type |-> "application/json", timeout |-> ForwardTimeout]

\* a bug: every upstream failure is answered with 502
ServiceErrorResponse_Fixed502(exc) ==
    Response(502, [error |-> "Dimensions DSL request failed.", details |-> exc.msg.body])

\* lines 216-220
ServiceErrorResponse(exc) ==
    Response(exc.msg.status, [error |-> "Dimensions DSL request failed.", details |-> exc.msg.body])

\* a bug: the network error is reported without its cause
NetworkErrorResponse_NoDetails(exc) ==
    Response(502, [error |-> "Dimensions DSL request failed."])

\* lines 221-225
NetworkErrorResponse(exc) ==
    Response(502, [error |-> "Dimensions DSL request failed.", details |-> exc.msg])

\* lines 229-232
InvalidJsonResponse == Response(502, [error |-> "Invalid JSON response from Dimensions"])

\* line 234: jsonify(payload), status 200
RelayResponse(value) == Response(200, value)

\* lines 216-225: the except clauses of the forwarding call
ForwardFailure(exc) ==
    IF exc.cls = "DimensionsServiceError" THEN ServiceErrorResponse(exc)
    ELSE IF IsRuntimeError(exc) THEN NetworkErrorResponse(exc)
    ELSE RaisedExc(exc)

\* lines 227-234
RelayOrReject(text) ==
    LET parsed == JsonLoads(text)
    IN  IF parsed.ok THEN RelayResponse(parsed.value) ELSE InvalidJsonResponse

\* ------------------------------------------- opportunity_predictions, pure
\* What the payload's "term" and "period" may be: absent, falsy (null, 0),
\* a truthy non-string such as the number 5, or a string.  text is what str()
\* makes of the value.
TermValues ==
    {[kind |-> k, text |-> <<>>] : k \in {"absent", "falsy"}}
        \cup {[kind |-> "truthy", text |-> <<"5">>]}
        \cup {[kind |-> "str", text |-> s] : s \in {<<>>, <<" ">>, <<"q">>, <<" ", "q", " ">>}}
AllPeriod == <<"a", "l", "l">>
PeriodValues ==
    {[kind |-> k, text |-> <<>>] : k \in {"absent", "falsy"}}
        \cup {[kind |-> "truthy", text |-> <<"5">>]}
        \cup {[kind |-> "str", text |-> s] : s \in {<<>>, <<" ">>, <<"1">>, <<" ", "5">>, <<"x">>}}
NoPeriod == [kind |-> "absent", text |-> <<>>]
PeriodTruthy(v) == v.kind = "truthy" \/ (v.kind = "str" /\ v.text # <<>>)

\* the payloads of POST /api/opportunity-predictions
PredictionPayloads ==
    {[shape |-> "object", q |-> NoQuery, term |-> t, period |-> pv] :
        t \in TermValues, pv \in PeriodValues}
        \cup {[shape |-> sh, q |-> NoQuery, term |-> NoQuery, period |-> NoPeriod] :
                sh \in {"null", "empty_array", "array", "string"}}

\* lines 239-241: term and period, or the exception the three lines raise
Fields(term, period) == [raised |-> FALSE, term |-> term, period |-> period, exc |-> NoExc]
NoFields(exc) == [raised |-> TRUE, term |-> <<>>, period |-> <<>>, exc |-> exc]
\* line 241: str(payload.get("period") or "all").strip() or "all"
PeriodOrDefault(pv) ==
    LET stripped == Strip(IF PeriodTruthy(pv) THEN pv.text ELSE AllPeriod)
    IN  IF stripped = <<>> THEN AllPeriod ELSE stripped
ReadFields(p) ==
    LET payload == IF PayloadTruthy(p) THEN p
                   ELSE [shape |-> "object", q |-> NoQuery, term |-> NoQuery,
                         period |-> NoPeriod]
    IN  IF payload.shape # "object"
        THEN NoFields(AttributeError("object has no attribute 'get'"))
        ELSE IF ~QueryTruthy(payload.term)
        THEN Fields(Strip(<<>>), PeriodOrDefault(payload.period))
        ELSE IF payload.term.kind # "str"
        THEN NoFields(AttributeError("object has no attribute 'strip'"))
        ELSE Fields(Strip(payload.term.text), PeriodOrDefault(payload.period))

\* lines 243-246
MissingTermResponse == Response(400, [error |-> "Missing required field: term"])

\* lines 114-119; confidences are in hundredths
BaseConfidence == 82
PeriodHint(period) ==
    CASE period = AllPeriod -> "Stable funding outlook"
      [] period = <<"1">> -> "Emerging call volume"
      [] period = <<"5">> -> "Sustained growth trajectory"
      [] OTHER -> "Mixed opportunity signals"

\* one entry of challenges: rank, challenge (a format and the term it
\* interpolates), confidence, and the funding trend with its period hint
Challenge(rank, format, term, confidence, trend, hint) ==
    [rank |-> rank, challenge |-> [text |-> format, term |-> term],
     confidence |-> confidence, funding_trend |-> [text |-> trend, period_hint |-> hint]]

\* a bug: the third challenge is lost
GenerateMockPredictions_TwoEntries(term, period) ==
    [term |-> term, period |-> period,
     predictions |->
        <<Challenge(1, "Transdisciplinary {term} demonstrator programme", term,
                    BaseConfidence + 8, "{period_hint} (+11% YoY awards)", PeriodHint(period)),
          Challenge(2, "Industry partnership on scalable {term} analytics", term,
                    BaseConfidence, "24m pipeline identified across Innovate UK", "")>>]

\* lines 103-188
GenerateMockPredictions(term, period) ==
    [term |-> term, period |-> period,
     predictions |->
        <<Challenge(1, "Transdisciplinary {term} demonstrator programme", term,
                    BaseConfidence + 8, "{period_hint} (+11% YoY awards)", PeriodHint(period)),
          Challenge(2, "Industry partnership on scalable {term} analytics", term,
                    BaseConfidence, "24m pipeline identified across Innovate UK", ""),
          Challenge(3, "Pan-European {term} resilience consortium", term,
                    BaseConfidence - 5, "18m Horizon Europe calls opening Q4", "")>>]

\* lines 239-265: the whole handler
PredictionsResponse(p) ==
    LET f == ReadFields(p)
    IN  IF f.raised THEN RaisedExc(f.exc)
        ELSE IF f.term = <<>> THEN MissingTermResponse
        ELSE Response(200, GenerateMockPredictions(f.term, f.period))

\* ---------------------------------------------- _get_dimensions_token, pure
\* a bug: the key is never checked
KeyConfigured_Unchecked(api_key) == TRUE

\* line 77: if not api_key
KeyConfigured(api_key) == api_key

\* a bug: the missing key is reported as a failed authentication
ConfigurationError_AsAuthFailure ==
    RuntimeError(Msg("Dimensions authentication failed with status {status}: {body}",
                     "", 0, NoText))

\* line 78
ConfigurationError ==
    RuntimeError(Msg("Dimensions API key is not configured. Set DIMENSIONS_API_KEY.",
                     "", 0, NoText))

\* a bug: a token is still served at the instant it expires
CacheValid_Inclusive(token, expires_at, now) == TokenTruthy(token) /\ now <= expires_at

\* line 82: token and time_func() < expires_at
CacheValid(token, expires_at, now) == TokenTruthy(token) /\ now < expires_at

\* a bug: the service error propagates as _http_post raised it
AuthFailure_Unwrapped(exc) == exc

\* lines 85-90: a service error is wrapped, any other exception propagates
AuthFailure(exc) ==
    IF exc.cls = "DimensionsServiceError"
    THEN RuntimeError(Msg("Dimensions authentication failed with status {status}: {body}",
                          "", exc.msg.status, exc.msg.body))
    ELSE exc

\* lines 91-96: the token of the response, or the exception raised
Parsed(token) == [raised |-> FALSE, token |-> token, exc |-> NoExc]
Unparsed(exc) == [raised |-> TRUE, token |-> None, exc |-> exc]
ParseToken(text) ==
    LET parsed == JsonLoads(text)
    IN  IF ~parsed.ok
        THEN Unparsed(RuntimeError(Msg("Dimensions authentication returned invalid JSON.",
                                       "", 0, NoText)))
        ELSE IF parsed.value.type # "dict"
        THEN Unparsed(AttributeError("object has no attribute 'get'"))
        ELSE IF ~TokenTruthy(parsed.value.token)
        THEN Unparsed(RuntimeError(Msg("Dimensions authentication response did not include a token.",
                                       "", 0, NoText)))
        ELSE Parsed(parsed.value.token)

\* a bug: the entry expires at the instant it is stored
ExpiresAt_NoTtl(now) == now

\* line 99
ExpiresAt(now) == now + TokenTtl

\* ------------------------------------------------------------ bookkeeping
\* test_get_dimensions_token_caches_success calls _get_dimensions_token three
\* times, with time_func fixed at 0.0, 5.0 and 4000.0, against a stub that
\* answers its n-th call with token-<n>.  script follows a behaviour for as
\* long as it is that test: step calls made, their results; OffScript after
\* anything else happened.
ScriptTimes == <<0, 5, 4000>>
OffScript == [step |-> -1, results |-> <<>>]
ScriptCall(kind) ==
    IF /\ kind = "direct"
       /\ Active = {}
       /\ script.step \in 0..(Len(ScriptTimes) - 1)
       /\ clock = ScriptTimes[script.step + 1]
    THEN script
    ELSE OffScript
ScriptResult(res) ==
    IF script.step >= 0 /\ res.type = "returned"
    THEN [step |-> script.step + 1, results |-> Append(script.results, res.token)]
    ELSE OffScript

\* the call of thread th ends with result res; of its locals only what the
\* request was and what the validity check compared is kept
Finish(th, fr, cl, res) ==
    /\ frame' = [frame EXCEPT ![th] =
                    [IdleFrame EXCEPT !.pc = "done", !.kind = fr.kind, !.payload = fr.payload,
                                      !.query = fr.query, !.expires_at = fr.expires_at,
                                      !.checked_at = fr.checked_at, !.api_key = fr.api_key]]
    /\ call' = [call EXCEPT ![th] = [cl EXCEPT !.result = res]]
    /\ script' = ScriptResult(res)

\* a bug: a failed authentication POST is attempted once more
TokenEnds_Retry(th, fr, cl, tokres) ==
    LET cl2 == [cl EXCEPT !.tokres = tokres]
    IN  IF tokres.state = "raised" /\ cl.auth_posts = 1
        THEN /\ frame' = [frame EXCEPT ![th] = [fr EXCEPT !.pc = "t_post"]]
             /\ call' = [call EXCEPT ![th] = cl]
             /\ script' = script
        ELSE IF fr.kind = "direct"
        THEN Finish(th, fr, cl2, IF tokres.state = "returned"
                                 THEN ReturnedToken(tokres.token)
                                 ELSE RaisedExc(tokres.exc))
        ELSE IF tokres.state = "returned"
        THEN /\ frame' = [frame EXCEPT ![th] =
                            [fr EXCEPT !.pc = "p_forward", !.handler_token = tokres.token]]
             /\ call' = [call EXCEPT ![th] = cl2]
             /\ script' = script
        ELSE Finish(th, fr, cl2, AuthErrorResponse(tokres.exc))

\* _get_dimensions_token returns or raises: to the test that called it, or
\* to dimensions_proxy (lines 198-204)
TokenEnds(th, fr, cl, tokres) ==
    LET cl2 == [cl EXCEPT !.tokres = tokres]
    IN  IF fr.kind = "direct"
        THEN Finish(th, fr, cl2, IF tokres.state = "returned"
                                 THEN ReturnedToken(tokres.token)
                                 ELSE RaisedExc(tokres.exc))
        ELSE IF tokres.state = "returned"
        THEN /\ frame' = [frame EXCEPT ![th] =
                            [fr EXCEPT !.pc = "p_forward", !.handler_token = tokres.token]]
             /\ call' = [call EXCEPT ![th] = cl2]
             /\ script' = script
        ELSE Finish(th, fr, cl2, AuthErrorResponse(tokres.exc))

\* ----------------------------------------------------------- environment
\* the clock advances (time_func is non-decreasing)
Tick ==
    /\ ticks < MaxTicks
    /\ \E d \in TickSteps : clock' = clock + d
    /\ ticks' = ticks + 1
    /\ script' = IF Active = {} THEN script ELSE OffScript
    /\ UNCHANGED <<cache, env_api_key, auth_calls, frame, call, stored, stored_at>>

\* monkeypatch.setenv("DIMENSIONS_API_KEY", "secret")
SetApiKey ==
    /\ Active = {}
    /\ ~env_api_key
    /\ env_api_key' = TRUE
    /\ UNCHANGED <<cache, clock, ticks, auth_calls, frame, call, stored, stored_at, script>>

\* monkeypatch.delenv("DIMENSIONS_API_KEY")
DelApiKey ==
    /\ Active = {}
    /\ env_api_key
    /\ env_api_key' = FALSE
    /\ UNCHANGED <<cache, clock, ticks, auth_calls, frame, call, stored, stored_at, script>>

\* stored keeps the pairs of the tokens that the cache or a thread still holds
Live(pairs, frames, calls) ==
    {p \in pairs : \/ p.token = cache.token
                   \/ \E th \in Threads : p.token \in {frames[th].token, calls[th].tokres.token}}

CanStart(th) ==
    /\ AtRest(th)
    /\ auth_calls < MaxAuthCalls

\* a direct call of _get_dimensions_token begins
CallGetToken(th) ==
    /\ CanStart(th)
    /\ frame' = [frame EXCEPT ![th] = [IdleFrame EXCEPT !.pc = "t_key", !.kind = "direct"]]
    /\ call' = [call EXCEPT ![th] = NewCall(cache)]
    /\ script' = ScriptCall("direct")
    /\ stored' = Live(stored, frame', call')
    /\ UNCHANGED <<cache, env_api_key, clock, ticks, auth_calls, stored_at>>

\* a POST /api/dimensions request arrives
RequestDimensions(th) ==
    /\ CanStart(th)
    /\ \E p \in Payloads :
          frame' = [frame EXCEPT ![th] =
                      [IdleFrame EXCEPT !.pc = "p_validate", !.kind = "proxy", !.payload = p]]
    /\ call' = [call EXCEPT ![th] = NewCall(cache)]
    /\ script' = ScriptCall("proxy")
    /\ stored' = Live(stored, frame', call')
    /\ UNCHANGED <<cache, env_api_key, clock, ticks, auth_calls, stored_at>>

\* ------------------------------------------------- _get_dimensions_token
\* lines 76-78
TokenReadKey(th) ==
    /\ frame[th].pc = "t_key"
    /\ LET fr == [frame[th] EXCEPT !.api_key = env_api_key]
       IN  IF KeyConfigured(fr.api_key)
           THEN /\ frame' = [frame EXCEPT ![th] = [fr EXCEPT !.pc = "t_token"]]
                /\ UNCHANGED <<call, script>>
           ELSE TokenEnds(th, fr, call[th], TokenRaised(ConfigurationError))
    /\ UNCHANGED <<cache, env_api_key, clock, ticks, auth_calls, stored, stored_at>>

\* line 80
TokenReadToken(th) ==
    /\ frame[th].pc = "t_token"
    /\ frame' = [frame EXCEPT ![th].pc = "t_expires", ![th].token = cache.token]
    /\ UNCHANGED <<cache, env_api_key, clock, ticks, auth_calls, call, stored, stored_at, script>>

\* line 81
TokenReadExpires(th) ==
    /\ frame[th].pc = "t_expires"
    /\ frame' = [frame EXCEPT ![th].pc = "t_check", ![th].expires_at = cache.expires_at]
    /\ UNCHANGED <<cache, env_api_key, clock, ticks, auth_calls, call, stored, stored_at, script>>

\* lines 82-83: time_func() is called only when token is truthy
TokenCheck(th) ==
    LET fr == frame[th]
        fr2 == [fr EXCEPT !.checked_at = IF TokenTruthy(fr.token) THEN clock ELSE NoTime]
    IN  /\ fr.pc = "t_check"
        /\ IF CacheValid(fr.token, fr.expires_at, clock)
           THEN TokenEnds(th, fr2, call[th], TokenReturned(fr.token, TRUE))
           ELSE /\ frame' = [frame EXCEPT ![th] = [fr2 EXCEPT !.pc = "t_post"]]
                /\ UNCHANGED <<call, script>>
        /\ UNCHANGED <<cache, env_api_key, clock, ticks, auth_calls, stored, stored_at>>

\* lines 85-90
TokenPost(th) ==
    /\ frame[th].pc = "t_post"
    /\ auth_calls' = auth_calls + 1
    /\ \E outcome \in AuthUrlOpens(auth_calls + 1) :
          LET r == HttpPost(DIMENSIONS_AUTH_URL, outcome)
              cl == [call[th] EXCEPT !.auth_posts = @ + 1, !.auth_upstream = outcome]
          IN  IF r.raised
              THEN TokenEnds(th, frame[th], cl, TokenRaised(AuthFailure(r.exc)))
              ELSE /\ frame' = [frame EXCEPT ![th].pc = "t_parse",
                                             ![th].response_text = r.text]
                   /\ call' = [call EXCEPT ![th] = cl]
                   /\ script' = script
    /\ UNCHANGED <<cache, env_api_key, clock, ticks, stored, stored_at>>

\* a bug: the token of the response is stored before it is checked
TokenParse_StoresFirst(th) ==
    LET r == ParseToken(frame[th].response_text)
        parsed == JsonLoads(frame[th].response_text)
    IN  /\ frame[th].pc = "t_parse"
        /\ IF r.raised
           THEN /\ TokenEnds(th, frame[th], call[th], TokenRaised(r.exc))
                /\ cache' = IF parsed.ok /\ parsed.value.type = "dict"
                            THEN [cache EXCEPT !.token = parsed.value.token]
                            ELSE cache
           ELSE /\ frame' = [frame EXCEPT ![th].pc = "t_store_token", ![th].token = r.token]
                /\ UNCHANGED <<cache, call, script>>
        /\ UNCHANGED <<env_api_key, clock, ticks, auth_calls, stored, stored_at>>

\* lines 91-96
TokenParse(th) ==
    LET r == ParseToken(frame[th].response_text)
    IN  /\ frame[th].pc = "t_parse"
        /\ IF r.raised
           THEN TokenEnds(th, frame[th], call[th], TokenRaised(r.exc))
           ELSE /\ frame' = [frame EXCEPT ![th].pc = "t_store_token", ![th].token = r.token]
                /\ UNCHANGED <<call, script>>
        /\ UNCHANGED <<cache, env_api_key, clock, ticks, auth_calls, stored, stored_at>>

\* line 98
TokenStoreToken(th) ==
    /\ frame[th].pc = "t_store_token"
    /\ cache' = [cache EXCEPT !.token = frame[th].token]
    /\ frame' = [frame EXCEPT ![th].pc = "t_clock"]
    /\ UNCHANGED <<env_api_key, clock, ticks, auth_calls, call, stored, stored_at, script>>

\* a bug: the expiry is computed from the clock reading of the validity check
TokenReadClock_ReusesCheck(th) ==
    /\ frame[th].pc = "t_clock"
    /\ frame' = [frame EXCEPT ![th].pc = "t_store_expires",
                              ![th].new_expires_at =
                                  ExpiresAt(IF frame[th].checked_at # NoTime
                                            THEN frame[th].checked_at ELSE clock),
                              ![th].read_at = clock]
    /\ UNCHANGED <<cache, env_api_key, clock, ticks, auth_calls, call, stored, stored_at, script>>

\* line 99, right-hand side
TokenReadClock(th) ==
    /\ frame[th].pc = "t_clock"
    /\ frame' = [frame EXCEPT ![th].pc = "t_store_expires",
                              ![th].new_expires_at = ExpiresAt(clock),
                              ![th].read_at = clock]
    /\ UNCHANGED <<cache, env_api_key, clock, ticks, auth_calls, call, stored, stored_at, script>>

\* line 99, the store, and line 100
TokenStoreExpires(th) ==
    LET fr == frame[th]
    IN  /\ fr.pc = "t_store_expires"
        /\ cache' = [cache EXCEPT !.expires_at = fr.new_expires_at]
        /\ stored' = stored \cup {[token |-> fr.token, expires_at |-> fr.new_expires_at]}
        /\ stored_at' = fr.read_at
        /\ TokenEnds(th, fr, call[th], TokenReturned(fr.token, FALSE))
        /\ UNCHANGED <<env_api_key, clock, ticks, auth_calls>>

\* ------------------------------------------------------ dimensions_proxy
\* lines 193-196
ProxyValidate(th) ==
    LET fr == frame[th]
        v == ValidateQuery(fr.payload)
    IN  /\ fr.pc = "p_validate"
        /\ IF v.raised THEN Finish(th, fr, call[th], RaisedExc(v.exc))
           ELSE IF v.query = <<>> THEN Finish(th, fr, call[th], MissingQueryResponse)
           ELSE /\ frame' = [frame EXCEPT ![th].pc = "t_key", ![th].query = v.query]
                /\ UNCHANGED <<call, script>>
        /\ UNCHANGED <<cache, env_api_key, clock, ticks, auth_calls, stored, stored_at>>

\* a bug: a token the upstream rejects with 401 is dropped from the cache
ProxyForward_InvalidatesOn401(th) ==
    LET fr == frame[th]
    IN  /\ fr.pc = "p_forward"
        /\ \E outcome \in DslUrlOpens :
              LET r == HttpPost(DIMENSIONS_DSL_URL, outcome)
                  cl == [call[th] EXCEPT !.fwd_posts = @ + 1,
                                         !.forward = ForwardRequest(fr.query, fr.handler_token),
                                         !.upstream = outcome]
              IN  /\ cache' = IF outcome.kind = "http_error" /\ outcome.status = 401
                              THEN [token |-> None, expires_at |-> 0] ELSE cache
                  /\ IF r.raised
                     THEN Finish(th, fr, cl, ForwardFailure(r.exc))
                     ELSE /\ frame' = [frame EXCEPT ![th].pc = "p_parse",
                                                    ![th].response_text = r.text]
                          /\ call' = [call EXCEPT ![th] = cl]
                          /\ script' = script
        /\ UNCHANGED <<env_api_key, clock, ticks, auth_calls, stored, stored_at>>

\* lines 206-225
ProxyForward(th) ==
    LET fr == frame[th]
    IN  /\ fr.pc = "p_forward"
        /\ \E outcome \in DslUrlOpens :
              LET r == HttpPost(DIMENSIONS_DSL_URL, outcome)
                  cl == [call[th] EXCEPT !.fwd_posts = @ + 1,
                                         !.forward = ForwardRequest(fr.query, fr.handler_token),
                                         !.upstream = outcome]
              IN  IF r.raised
                  THEN Finish(th, fr, cl, ForwardFailure(r.exc))
                  ELSE /\ frame' = [frame EXCEPT ![th].pc = "p_parse",
                                                 ![th].response_text = r.text]
                       /\ call' = [call EXCEPT ![th] = cl]
                       /\ script' = script
        /\ UNCHANGED <<cache, env_api_key, clock, ticks, auth_calls, stored, stored_at>>

\* lines 227-234
ProxyParse(th) ==
    /\ frame[th].pc = "p_parse"
    /\ Finish(th, frame[th], call[th], RelayOrReject(frame[th].response_text))
    /\ UNCHANGED <<cache, env_api_key, clock, ticks, auth_calls, stored, stored_at>>

\* ------------------------------------------------ opportunity_predictions
\* lines 237-265: a POST /api/opportunity-predictions request is answered;
\* the handler reads and writes nothing but its request
OpportunityPredictions(th) ==
    /\ AtRest(th)
    /\ \E p \in PredictionPayloads :
          /\ frame' = [frame EXCEPT ![th] =
                         [IdleFrame EXCEPT !.pc = "done", !.kind = "predictions", !.payload = p]]
          /\ call' = [call EXCEPT ![th] = [NewCall(cache) EXCEPT !.result = PredictionsResponse(p)]]
    /\ script' = ScriptCall("predictions")
    /\ stored' = Live(stored, frame', call')
    /\ UNCHANGED <<cache, env_api_key, clock, ticks, auth_calls, stored_at>>

\* ---------------------------------------------------------- specifications
\* One thread of control: calls and requests run one after the other.
Main == 1

Next ==
    \/ Tick
    \/ SetApiKey
    \/ DelApiKey
    \/ CallGetToken(Main)
    \/ RequestDimensions(Main)
    \/ TokenReadKey(Main)
    \/ TokenReadToken(Main)
    \/ TokenReadExpires(Main)
    \/ TokenCheck(Main)
    \/ TokenPost(Main)
    \/ TokenParse(Main)
    \/ TokenStoreToken(Main)
    \/ TokenReadClock(Main)
    \/ TokenStoreExpires(Main)
    \/ ProxyValidate(Main)
    \/ ProxyForward(Main)
    \/ ProxyParse(Main)

Spec == Init /\ [][Next]_vars

\* The same thread of control serving the predictions route between direct
\* calls of _get_dimensions_token, which fill and refresh the cache.
PredNext ==
    \/ Tick
    \/ SetApiKey
    \/ DelApiKey
    \/ CallGetToken(Main)
    \/ TokenReadKey(Main)
    \/ TokenReadToken(Main)
    \/ TokenReadExpires(Main)
    \/ TokenCheck(Main)
    \/ TokenPost(Main)
    \/ TokenParse(Main)
    \/ TokenStoreToken(Main)
    \/ TokenReadClock(Main)
    \/ TokenStoreExpires(Main)
    \/ OpportunityPredictions(Main)

PredSpec == Init /\ [][PredNext]_vars

\* The serving runtime: every thread runs _get_dimensions_token, and the
\* scheduler may switch threads between any two statements.
ConcNext ==
    \/ Tick
    \/ \E th \in Threads : CallGetToken(th)
    \/ \E th \in Threads : TokenReadKey(th)
    \/ \E th \in Threads : TokenReadToken(th)
    \/ \E th \in Threads : TokenReadExpires(th)
    \/ \E th \in Threads : TokenCheck(th)
    \/ \E th \in Threads : TokenPost(th)
    \/ \E th \in Threads : TokenParse(th)
    \/ \E th \in Threads : TokenStoreToken(th)
    \/ \E th \in Threads : TokenReadClock(th)
    \/ \E th \in Threads : TokenStoreExpires(th)

ConcSpec == Init /\ [][ConcNext]_vars

\* ------------------------------------------------------------------ claims
\* the call of th has made its validity check and found a miss
PastMiss(th) ==
    frame[th].pc \in {"t_post", "t_parse", "t_store_token", "t_clock", "t_store_expires"}
        \/ call[th].auth_posts > 0
\* the call of th has made its validity check
PastCheck(th) == PastMiss(th) \/ call[th].tokres.state = "returned"

\* what the claims say of a cache entry read at clock time t
MustAuthenticate(entry, t) == entry.token = None \/ ~(t < entry.expires_at)

\* C1: in a sequence of calls, a call that got past the key check performs
\* an authentication POST if and only if, of the cache as the call found it,
\* no token is cached or the call's clock reading is not strictly before the
\* cached expiry; otherwise it returns the cached token and makes no POST.
\* The test's three calls at 0, 5 and 4000 return token-1, token-1, token-2
\* with exactly two authentication calls.
C1_TokenReuse ==
    /\ PastCheck(Main) =>
          /\ PastMiss(Main) <=> MustAuthenticate(call[Main].snap, frame[Main].checked_at)
          /\ call[Main].auth_posts <= 1
          /\ (call[Main].tokres.state = "returned" /\ ~PastMiss(Main)) =>
                /\ call[Main].tokres.token = call[Main].snap.token
                /\ cache = call[Main].snap
    /\ script.step = Len(ScriptTimes) =>
          /\ script.results = <<1, 1, 2>>
          /\ auth_calls = 2

\* the test has made its three calls
C1_Witness == script.step = Len(ScriptTimes) /\ frame[Main].pc = "done"

\* the cache held an unexpired token from before the call of th until now
ValidThroughout(th) ==
    /\ TokenTruthy(call[th].snap.token)
    /\ cache = call[th].snap
    /\ clock < cache.expires_at
TokenCallOver(th) == call[th].tokres.state # "none"
ServedFromCache(th) ==
    /\ call[th].tokres = TokenReturned(call[th].snap.token, TRUE)
    /\ call[th].auth_posts = 0

\* C2 as stated: whenever the cache holds an unexpired token, the call
\* returns it with no network call and no error, whether or not the API key is
\* configured.
C2_FastPathFirst ==
    (TokenCallOver(Main) /\ ValidThroughout(Main)) => ServedFromCache(Main)

\* C2 as amended: whenever the cache holds an unexpired token, the call makes
\* no network call; it returns the cached token when the API key is
\* configured, and fails with the configuration error when it is not, since the
\* key is required before the cache is read.
C2_KeyFirstThenFastPath ==
    (TokenCallOver(Main) /\ ValidThroughout(Main)) =>
        /\ call[Main].auth_posts = 0
        /\ IF frame[Main].api_key
           THEN ServedFromCache(Main)
           ELSE call[Main].tokres = TokenRaised(ConfigurationError)

\* a call found an unexpired token cached and no API key
C2_Witness ==
    /\ TokenCallOver(Main) /\ ValidThroughout(Main)
    /\ ~frame[Main].api_key
    /\ call[Main].tokres.state = "raised"

\* a call of th returned a token from the fast path (line 83)
FastReturn(th) == call[th].tokres.state = "returned" /\ call[th].tokres.fast

\* C3: under any interleaving, a token returned from the fast path has an
\* own expiry (the expiry written by the refresh that stored that token)
\* strictly after the clock time of the fast-path check.
C3_FastPathNeverExpired ==
    \A th \in Threads :
        FastReturn(th) =>
            \A p \in stored :
                p.token = call[th].tokres.token => frame[th].checked_at < p.expires_at

\* a thread is between its write of the token and its write of expires_at
MidRefresh(th) == frame[th].pc \in {"t_clock", "t_store_expires"}
InitialEntry == [token |-> None, expires_at |-> 0]

\* C4: under any interleaving, whenever no call is between its two writes,
\* the cached token and the cached expires_at were written by the same call.
C4_PairFromOneRefresh ==
    (\A th \in Threads : ~MidRefresh(th)) => cache \in stored \cup {InitialEntry}

\* --------------------------------------------- claims on dimensions_proxy
InProxy(th) == frame[th].kind = "proxy"
ProxyDone(th) == InProxy(th) /\ frame[th].pc = "done"
Result(th) == call[th].result

\* a payload with no query: an object whose query is absent, null, empty or
\* only whitespace, or an empty payload (null, [])
AllWhitespace(text) == \A i \in 1..Len(text) : text[i] = " "
MissingQuery(p) ==
    \/ p.shape \in {"null", "empty_array"}
    \/ /\ p.shape = "object"
       /\ \/ p.q.kind \in {"absent", "null"}
          \/ p.q.kind = "str" /\ AllWhitespace(p.q.text)

\* C5: a request whose query is absent, empty or whitespace-only is
\* answered 400 with the missing-query error, and makes no authentication
\* call and no forwarding call; the token cache is unchanged.
C5_MissingQueryNoNetwork ==
    (InProxy(Main) /\ MissingQuery(frame[Main].payload)) =>
        /\ frame[Main].pc \in {"p_validate", "done"}
        /\ call[Main].auth_posts = 0
        /\ call[Main].fwd_posts = 0
        /\ cache = call[Main].snap
        /\ frame[Main].pc = "done" =>
              Result(Main) = Response(400, [error |-> "Missing DSL query payload."])

\* a request whose query is one space was answered
C5_Witness ==
    /\ ProxyDone(Main)
    /\ frame[Main].payload = [shape |-> "object", q |-> [kind |-> "str", text |-> <<" ">>]]
    /\ Result(Main).status = 400

\* C6: when _get_dimensions_token fails during a request, the answer is 500
\* with error 'Unable to authenticate with Dimensions.' and the underlying
\* message as details, and the forwarding POST is never issued.
C6_AuthFailureStops ==
    (InProxy(Main) /\ call[Main].tokres.state = "raised") =>
        /\ frame[Main].pc = "done"
        /\ Result(Main) = Response(500, [error |-> "Unable to authenticate with Dimensions.",
                                         details |-> call[Main].tokres.exc.msg])
        /\ call[Main].fwd_posts = 0
        /\ call[Main].forward = NoRequest

\* a request failed on a service error of the authentication POST
C6_Witness ==
    /\ ProxyDone(Main)
    /\ call[Main].auth_posts = 1
    /\ call[Main].tokres.state = "raised"
    /\ call[Main].tokres.exc.msg.status = 500
    /\ Result(Main).status = 500

\* C7: with a non-empty query and a token from _get_dimensions_token, the
\* handler issues one forwarding POST with Authorization 'JWT <token>' and
\* timeout 30, and when the upstream text parses as JSON it answers 200 with
\* the parsed structure, unchanged.
C7_SuccessfulRelay ==
    (InProxy(Main) /\ call[Main].tokres.state = "returned" /\ frame[Main].pc # "p_forward") =>
        /\ call[Main].fwd_posts = 1
        /\ call[Main].forward.authorization =
              [scheme |-> "JWT", token |-> call[Main].tokres.token]
        /\ call[Main].forward.timeout = 30
        /\ call[Main].forward.payload = frame[Main].query
        /\ frame[Main].query # <<>>
        /\ (ProxyDone(Main) /\ call[Main].upstream.kind = "ok"
               /\ call[Main].upstream.text.form # "invalid") =>
              /\ Result(Main).type = "response"
              /\ Result(Main).status = 200
              /\ Result(Main).body = JsonLoads(call[Main].upstream.text).value
        /\ (ProxyDone(Main) /\ call[Main].upstream = UrlOpen("ok", 200, Text("results_obj", 0))) =>
              Result(Main).body = [type |-> "dict", token |-> None, results |-> <<1, 2, 3>>]

\* the upstream's {"results":[1,2,3]} was relayed
C7_Witness ==
    /\ ProxyDone(Main)
    /\ call[Main].upstream = UrlOpen("ok", 200, Text("results_obj", 0))
    /\ Result(Main).status = 200
    /\ call[Main].forward.authorization.token > 0

\* C8: a service error of the forwarding POST is answered with the
\* upstream status and the upstream body as details; a network error with
\* 502; a response that is not valid JSON with 502 and an invalid-JSON error.
C8_ForwardFailuresTranslated ==
    (ProxyDone(Main) /\ call[Main].fwd_posts = 1) =>
        /\ call[Main].upstream.kind = "http_error" =>
              /\ Result(Main).type = "response"
              /\ Result(Main).status = call[Main].upstream.status
              /\ Result(Main).body.details = call[Main].upstream.text
        /\ call[Main].upstream.kind = "url_error" =>
              /\ Result(Main).type = "response"
              /\ Result(Main).status = 502
        /\ (call[Main].upstream.kind = "ok" /\ call[Main].upstream.text.form = "invalid") =>
              Result(Main) = Response(502, [error |-> "Invalid JSON response from Dimensions"])

\* the upstream answered the query with status 401
C8_Witness ==
    /\ ProxyDone(Main)
    /\ call[Main].upstream.kind = "http_error"
    /\ Result(Main).status = 401

\* C9: every request ends in a response (400, 500, 200, or a gateway or
\* upstream status), and no exception escapes the handler.
C9_EveryRequestHandled ==
    ProxyDone(Main) =>
        /\ Result(Main).type = "response"
        /\ Result(Main).status \in {400, 500, 200, 502} \cup {e[1] : e \in HttpErrors}

Failed(th) == Result(th).type = "response" /\ Result(th).status # 200

\* C10 as stated: every non-success response carries an error field and
\* a details field.
C10_ErrorAndDetails ==
    (ProxyDone(Main) /\ Failed(Main)) => {"error", "details"} \subseteq DOMAIN Result(Main).body

\* C10 as amended: every non-success response carries an error field; it
\* carries a details field, holding the underlying message, exactly when
\* the failure is an authentication failure, an upstream service error or a
\* network error; the missing-query and invalid-JSON responses carry error
\* alone.
C10_ErrorAndSometimesDetails ==
    (ProxyDone(Main) /\ Failed(Main)) =>
        LET body == Result(Main).body
            cl == call[Main]
        IN  /\ "error" \in DOMAIN body
            /\ "details" \in DOMAIN body <=>
                  \/ cl.tokres.state = "raised"
                  \/ cl.upstream.kind \in {"http_error", "url_error"}
            /\ cl.tokres.state = "raised" => body.details = cl.tokres.exc.msg
            /\ cl.upstream.kind = "http_error" => body.details = cl.upstream.text
            /\ cl.upstream.kind = "url_error" =>
                  body.details = Msg("Network error contacting {url}: {reason}",
                                     DIMENSIONS_DSL_URL, 0, NoText)

\* an upstream response that is not JSON was answered without details
C10_Witness ==
    /\ ProxyDone(Main)
    /\ call[Main].upstream.kind = "ok"
    /\ call[Main].upstream.text.form = "invalid"
    /\ Result(Main).status = 502
    /\ "details" \notin DOMAIN Result(Main).body


\* the messages of the errors _get_dimensions_token raises itself
ConfigurationText == "Dimensions API key is not configured. Set DIMENSIONS_API_KEY."
AuthFailureText == "Dimensions authentication failed with status {status}: {body}"
InvalidJsonText == "Dimensions authentication returned invalid JSON."
NoTokenText == "Dimensions authentication response did not include a token."
\* the kind of an error, as a caller tells them apart: all are RuntimeError
\* and differ by message
ErrorKind(exc) ==
    IF exc.cls # "RuntimeError" THEN "other"
    ELSE CASE exc.msg.text = ConfigurationText -> "configuration"
           [] exc.msg.text = AuthFailureText -> "authentication"
           [] exc.msg.text \in {InvalidJsonText, NoTokenText} -> "response_format"
           [] OTHER -> "other"
TokenError(th) == call[th].tokres.exc
AfterKeyCheck ==
    {"t_token", "t_expires", "t_check", "t_post", "t_parse", "t_store_token", "t_clock",
     "t_store_expires", "p_forward", "p_parse"}

\* C11: a call that finds no valid cached token and no API key (absent or
\* empty) fails with the configuration error 'Dimensions API key is not
\* configured', goes no further than the key check, makes no network call and
\* leaves the cache as it found it.
C11_MissingKeyNoNetwork ==
    /\ (frame[Main].pc \in AfterKeyCheck) => frame[Main].api_key
    /\ (/\ TokenCallOver(Main)
        /\ ~frame[Main].api_key
        /\ MustAuthenticate(call[Main].snap, clock)) =>
          /\ call[Main].tokres.state = "raised"
          /\ TokenError(Main).cls = "RuntimeError"
          /\ TokenError(Main).msg.text = ConfigurationText
          /\ call[Main].auth_posts = 0
          /\ call[Main].fwd_posts = 0
          /\ cache = call[Main].snap

\* a call found an expired token cached and no API key, and failed
C11_Witness ==
    /\ TokenCallOver(Main)
    /\ ~frame[Main].api_key
    /\ TokenTruthy(call[Main].snap.token)
    /\ call[Main].snap.expires_at <= clock
    /\ ErrorKind(TokenError(Main)) = "configuration"

\* C12: when the authentication POST is answered with an error status, the
\* call fails with the authentication-failure error that carries that status
\* and that body, which is neither the configuration error nor a
\* response-format error, and no token is stored.
C12_ServiceErrorWrapped ==
    call[Main].auth_upstream.kind = "http_error" =>
        /\ call[Main].tokres.state = "raised"
        /\ TokenError(Main).cls = "RuntimeError"
        /\ TokenError(Main).msg.text = AuthFailureText
        /\ TokenError(Main).msg.status = call[Main].auth_upstream.status
        /\ TokenError(Main).msg.body = call[Main].auth_upstream.text
        /\ ErrorKind(TokenError(Main)) \notin {"configuration", "response_format"}
        /\ cache = call[Main].snap

\* the authentication service answered 401 and the call failed
C12_Witness ==
    /\ call[Main].auth_upstream.kind = "http_error"
    /\ call[Main].auth_upstream.status = 401
    /\ call[Main].tokres.state = "raised"
    /\ frame[Main].pc = "done"

\* C13 as stated: when the authentication POST fails with a network error,
\* the call fails with the same authentication-failure kind of error that a
\* service error produces, not with an error of another kind.
C13_NetworkErrorSameKind ==
    call[Main].auth_upstream.kind = "url_error" =>
        /\ call[Main].tokres.state = "raised"
        /\ ErrorKind(TokenError(Main)) = "authentication"

\* C13 as amended: when the authentication POST fails with a network error,
\* the call fails with the RuntimeError _http_post raised, unchanged: its
\* message is 'Network error contacting <auth url>: <reason>', not the
\* authentication-failure message of a service error, and nothing is stored.
\* The two are made one only by dimensions_proxy, which answers either with
\* 500 'Unable to authenticate with Dimensions.'.
C13_NetworkErrorPropagates ==
    /\ call[Main].auth_upstream.kind = "url_error" =>
          /\ call[Main].tokres.state = "raised"
          /\ TokenError(Main) =
                Exc("RuntimeError", Msg("Network error contacting {url}: {reason}",
                                        "https://app.dimensions.ai/api/auth", 0, NoText))
          /\ ErrorKind(TokenError(Main)) # "authentication"
          /\ cache = call[Main].snap
    /\ (InProxy(Main) /\ call[Main].auth_upstream.kind \in {"url_error", "http_error"}) =>
          /\ Result(Main).type = "response"
          /\ Result(Main).status = 500
          /\ Result(Main).body.error = "Unable to authenticate with Dimensions."

\* a request's authentication POST failed with a network error
C13_Witness ==
    /\ InProxy(Main)
    /\ call[Main].auth_upstream.kind = "url_error"
    /\ call[Main].tokres.state = "raised"
    /\ Result(Main).status = 500

\* C14: when the authentication response is not valid JSON the call fails
\* with 'authentication returned invalid JSON'; when it is valid JSON of any
\* shape (object, array, null, ...) without a truthy token the call fails with
\* 'response did not include a token'; no other kind of error is raised for
\* a response body, and nothing is stored.
C14_ResponseFormatErrors ==
    (/\ call[Main].auth_upstream.kind = "ok"
     /\ call[Main].auth_upstream.text.form # "token_obj"
     /\ TokenCallOver(Main)) =>
        /\ call[Main].tokres.state = "raised"
        /\ TokenError(Main).cls = "RuntimeError"
        /\ TokenError(Main).msg.text =
              IF call[Main].auth_upstream.text.form = "invalid"
              THEN InvalidJsonText ELSE NoTokenText
        /\ cache = call[Main].snap

\* the cached expires_at is the clock reading of the refresh that wrote it
\* (line 99) plus 50 minutes, and so strictly after that reading
EntryValidWhenStored ==
    /\ stored_at # NoTime
    /\ cache.expires_at = stored_at + 50 * 60
    /\ cache.expires_at > stored_at
\* a call that returned a cached token read the clock and found it strictly
\* before the expires_at it had read from the cache
CheckedBeforeReturn(th) ==
    FastReturn(th) =>
        /\ frame[th].checked_at # NoTime
        /\ frame[th].checked_at < frame[th].expires_at

\* C15 as stated: in every reachable state, if the cache holds a token then
\* its expires_at is strictly greater than the clock value at the moment the
\* entry was stored (the clock at store time plus the 50-minute TTL), and every
\* call compares the clock against expires_at before it returns a cached token.
C15_EntryValidInEveryState ==
    /\ cache.token # None => EntryValidWhenStored
    /\ \A th \in Threads : CheckedBeforeReturn(th)

\* C15 as amended: in every reachable state in which no call is between its
\* write of the token (line 98) and its write of expires_at (line 99), if the
\* cache holds a token then its expires_at equals the clock reading of line 99
\* plus the 50-minute TTL and is strictly greater than that reading; between
\* the two writes the cache holds the new token with the previous expires_at
\* (0.0 on the first refresh). Every call compares the clock against
\* expires_at before it returns a cached token.
C15_EntryValidOnceStored ==
    /\ (cache.token # None /\ \A th \in Threads : ~MidRefresh(th)) => EntryValidWhenStored
    /\ \A th \in Threads : CheckedBeforeReturn(th)

\* a later call was served the token a refresh had stored
C15_Witness ==
    /\ FastReturn(Main)
    /\ frame[Main].pc = "done"
    /\ cache.token = 1
    /\ stored_at = 5
    /\ frame[Main].checked_at > stored_at

\* C16: a call of _get_dimensions_token issues at most one authentication
\* POST and a request at most one forwarding POST; the forwarding POST is
\* issued only after the token call returned a token, and carries that token;
\* once the token call or the forwarding POST has failed the request is over,
\* with nothing attempted again.
C16_NoRetriesFixedOrder ==
    /\ call[Main].auth_posts <= 1
    /\ call[Main].fwd_posts <= 1
    /\ (frame[Main].pc \in {"p_forward", "p_parse"} \/ call[Main].fwd_posts > 0) =>
          call[Main].tokres.state = "returned"
    /\ call[Main].fwd_posts > 0 =>
          call[Main].forward.authorization.token = call[Main].tokres.token
    /\ call[Main].tokres.state = "raised" =>
          /\ frame[Main].pc = "done"
          /\ call[Main].fwd_posts = 0
    /\ call[Main].auth_upstream.kind \in {"http_error", "url_error", "other"} =>
          /\ call[Main].tokres.state = "raised"
          /\ call[Main].auth_posts = 1
    /\ call[Main].upstream.kind \in {"http_error", "url_error", "other"} =>
          /\ frame[Main].pc = "done"
          /\ call[Main].fwd_posts = 1
    /\ Result(Main) # NoResult => frame[Main].pc = "done"

\* a request authenticated once, forwarded once, and the forwarding failed
C16_Witness ==
    /\ ProxyDone(Main)
    /\ call[Main].auth_posts = 1
    /\ call[Main].fwd_posts = 1
    /\ call[Main].upstream.kind = "url_error"
    /\ Result(Main).status = 502

\* the thread answered a predictions request whose payload is an object (or
\* empty) and whose term, if present and truthy, is a string
InPredictions(th) == frame[th].kind = "predictions"
TermInScope(p) == p.shape \in {"object", "null", "empty_array"} /\ p.term.kind # "truthy"
NonEmptyTerm(p) == p.term.kind = "str" /\ ~AllWhitespace(p.term.text)
Spaces(n) == [i \in 1..n |-> " "]
\* t is raw without its leading and trailing spaces
IsTrimOf(t, raw) ==
    /\ t # <<>> => (t[1] # " " /\ t[Len(t)] # " ")
    /\ \E i, j \in 0..Len(raw) : raw = Spaces(i) \o t \o Spaces(j)
\* the handler touched neither the network nor the token cache
NothingTouched(th) ==
    /\ call[th].auth_posts = 0
    /\ call[th].fwd_posts = 0
    /\ call[th].tokres = NoTokRes
    /\ cache = call[th].snap
\* the three entries, which depend on nothing but term and period
ThreeEntries(b) ==
    /\ Len(b.predictions) = 3
    /\ \A i \in 1..3 :
          /\ b.predictions[i].rank = i
          /\ b.predictions[i].challenge.term = b.term
    /\ <<b.predictions[1].confidence, b.predictions[2].confidence,
         b.predictions[3].confidence>> = <<90, 82, 77>>
    /\ b.predictions[1].funding_trend.period_hint =
          CASE b.period = <<"a", "l", "l">> -> "Stable funding outlook"
            [] b.period = <<"1">> -> "Emerging call volume"
            [] b.period = <<"5">> -> "Sustained growth trajectory"
            [] OTHER -> "Mixed opportunity signals"
MissingTermAnswer(th) == Result(th) = Response(400, [error |-> "Missing required field: term"])

\* C17 as stated: a predictions request with a non-empty term is answered
\* 200 with exactly 3 entries that depend on term and period alone, echoes the
\* term and the period of the request (period 'all' when omitted or empty),
\* and touches neither the network nor the token cache; a request whose term
\* is absent, empty or whitespace-only is answered 400 'Missing required
\* field: term'.
C17_EchoesTermAndPeriod ==
    (InPredictions(Main) /\ TermInScope(frame[Main].payload)) =>
        LET p == frame[Main].payload
        IN  /\ NothingTouched(Main)
            /\ IF NonEmptyTerm(p)
               THEN /\ Result(Main).type = "response" /\ Result(Main).status = 200
                    /\ ThreeEntries(Result(Main).body)
                    /\ Result(Main).body.term = p.term.text
                    /\ Result(Main).body.period =
                          IF p.period.kind \in {"absent", "falsy"} \/ p.period.text = <<>>
                          THEN <<"a", "l", "l">> ELSE p.period.text
               ELSE MissingTermAnswer(Main)

\* C17 as amended: as stated, except that the response carries the term
\* with its leading and trailing whitespace removed, and the period as the
\* string form of the request's period with its leading and trailing
\* whitespace removed, 'all' when the period is omitted, falsy, empty or
\* whitespace-only.
C17_EchoesTrimmedTermAndPeriod ==
    (InPredictions(Main) /\ TermInScope(frame[Main].payload)) =>
        LET p == frame[Main].payload
        IN  /\ NothingTouched(Main)
            /\ IF NonEmptyTerm(p)
               THEN /\ Result(Main).type = "response" /\ Result(Main).status = 200
                    /\ ThreeEntries(Result(Main).body)
                    /\ IsTrimOf(Result(Main).body.term, p.term.text)
                    /\ Result(Main).body.term # <<>>
                    /\ IF p.period.kind \in {"absent", "falsy"} \/ AllWhitespace(p.period.text)
                       THEN Result(Main).body.period = <<"a", "l", "l">>
                       ELSE IsTrimOf(Result(Main).body.period, p.period.text)
               ELSE MissingTermAnswer(Main)

\* a request with term ' q ' and period ' 5' was answered while a token was
\* cached
C17_Witness ==
    /\ InPredictions(Main)
    /\ frame[Main].payload.term = [kind |-> "str", text |-> <<" ", "q", " ">>]
    /\ frame[Main].payload.period = [kind |-> "str", text |-> <<" ", "5">>]
    /\ Result(Main).status = 200
    /\ Result(Main).body.term = <<"q">>
    /\ Result(Main).body.period = <<"5">>
    /\ TokenTruthy(cache.token)

\* C18: every call of _get_dimensions_token that fails, whatever the
\* failure (missing key, service error, network error, invalid JSON, missing
\* token, or an exception that escapes), leaves both cache fields as they were
\* before the call; and a call that finds no valid token after a failure
\* performs an authentication POST of its own.
C18_FailureLeavesCache ==
    /\ call[Main].tokres.state = "raised" =>
          /\ cache = call[Main].snap
          /\ call[Main].auth_posts <= 1
    /\ (/\ call[Main].tokres.state = "returned"
        /\ MustAuthenticate(call[Main].snap, frame[Main].checked_at)) =>
          /\ call[Main].auth_posts = 1
          /\ ~call[Main].tokres.fast

\* a call found an expired token cached, got a response without a token, and
\* failed
C18_Witness ==
    /\ call[Main].tokres.state = "raised"
    /\ call[Main].auth_upstream.text.form \in {"no_token_obj", "empty_token"}
    /\ call[Main].auth_upstream.kind = "ok"
    /\ TokenTruthy(call[Main].snap.token)
    /\ cache = call[Main].snap

\* the request of th is at or past its forwarding step
Forwarding(th) == frame[th].pc \in {"p_forward", "p_parse"} \/ call[th].fwd_posts > 0

\* from the forwarding POST on, the cache holds the token the request used
TokenKeptWhileForwarding ==
    (InProxy(Main) /\ Forwarding(Main)) =>
        /\ cache.token = call[Main].tokres.token
        /\ cache \in stored
        /\ call[Main].auth_posts <= 1
\* a call with the API key that finds an unexpired token is served it
ValidTokenServed ==
    (TokenCallOver(Main) /\ ValidThroughout(Main) /\ frame[Main].api_key) =>
        ServedFromCache(Main)
\* a step taken while the request forwards or parses the answer
ForwardingStepKeepsCache ==
    frame[Main].pc \in {"p_forward", "p_parse"} =>
        /\ cache' = cache
        /\ auth_calls' = auth_calls

\* C19: the forwarding step of a request leaves the token cache as it is,
\* whatever the upstream answers, a 401 included: from the forwarding POST on,
\* the cache still holds the token the request used, with the expiry stored
\* with it, and no step of the forwarding changes the cache or authenticates;
\* a later call that finds that token unexpired is served it from the cache
\* with no authentication POST.
C19_ForwardingKeepsToken ==
    /\ [](TokenKeptWhileForwarding /\ ValidTokenServed)
    /\ [][ForwardingStepKeepsCache]_vars

\* the upstream rejected the token with 401 and the token is still cached
C19_Witness ==
    /\ ProxyDone(Main)
    /\ call[Main].upstream.kind = "http_error"
    /\ call[Main].upstream.status = 401
    /\ Result(Main).status = 401
    /\ TokenTruthy(cache.token)
    /\ cache.token = call[Main].tokres.token

\* what a refresh stores and what the fast path serves, measured from the
\* clock reading of line 99
ExpiryFromStore ==
    /\ frame[Main].pc = "t_store_expires" =>
          frame[Main].new_expires_at = frame[Main].read_at + 3000
    /\ (call[Main].tokres.state = "returned" /\ ~call[Main].tokres.fast) =>
          /\ cache.expires_at = stored_at + 3000
          /\ stored_at >= frame[Main].checked_at
    /\ FastReturn(Main) => frame[Main].checked_at - stored_at < 3000
    /\ (/\ PastCheck(Main)
        /\ TokenTruthy(call[Main].snap.token)
        /\ frame[Main].checked_at = call[Main].snap.expires_at) => PastMiss(Main)

\* C20 as stated: on a cache miss the clock is read once for the validity
\* check and again after the authentication POST returns, and the stored
\* expires_at is the second reading plus 3000; in sequential executions a
\* token is never returned from the cache 3000 or more after it was stored,
\* and a call at exactly expires_at authenticates again.
C20_TwoReadingsOnMiss ==
    /\ PastMiss(Main) => frame[Main].checked_at # NoTime
    /\ ExpiryFromStore

\* C20 as amended: on a cache miss the clock is read for the validity check
\* only when a token is cached (with no token cached the check does not read
\* the clock), and it is read after the authentication POST returns; the
\* stored expires_at is that later reading plus 3000; in sequential
\* executions a token is never returned from the cache 3000 or more after it
\* was stored, and a call at exactly expires_at authenticates again.
C20_ExpiryFromLaterReading ==
    /\ PastMiss(Main) => (frame[Main].checked_at # NoTime <=> TokenTruthy(call[Main].snap.token))
    /\ ExpiryFromStore

\* a call made at exactly the cached expiry authenticated again and stored a
\* token whose expiry counts from a later clock reading
C20_Witness ==
    /\ TokenTruthy(call[Main].snap.token)
    /\ frame[Main].checked_at = call[Main].snap.expires_at
    /\ call[Main].tokres.state = "returned"
    /\ call[Main].auth_posts = 1
    /\ stored_at > frame[Main].checked_at
    /\ cache.expires_at = stored_at + 3000

=============================================================================
